---- MODULE Spec2Model ----
(***************************************************************************)
(* Model of DefaultContract (src/contract.go): the lazily loaded NFT       *)
(* ledger with its four fields TokenOwners, OwnedTokens, OwnedTokenIndex   *)
(* and TotalTokens, the DragonChain heap it fetches them from, and the     *)
(* operations Mint, Burn, Transfer, BalanceOf, OwnerOf, TotalSupply and    *)
(* TokensOwnedBy; of the invocations that pass the ledger on through the   *)
(* heap; of Runtime.Run; and of MetadataFor of the Contract of src/nft.go. *)
(***************************************************************************)
EXTENDS Integers, Sequences, FiniteSets, TLC

\* ---------------------------------------------------------------- bounds
MaxTokens == 2
NumOwners == 2
\* Longest sequence of calls made on one contract.
MaxCalls == 4

TokenNames == <<"t1", "t2", "t3", "t4", "t5", "t6">>
OwnerNames == <<"alice", "bob", "carol", "dave", "erin">>
Tokens == {TokenNames[i] : i \in 1..MaxTokens}
Owners == {OwnerNames[i] : i \in 1..NumOwners}

\* ---------------------------------------------------------------- errors
NoErr == "nil"
ErrNoExist == "resource does not exist"
ErrAlreadyExists == "resource already exists"
ErrInvalidBigIntString == "big.Int invalid"
ErrClient == "client error"
ErrBadStatus == "bad status code"
StoreErrors == {ErrClient, ErrBadStatus}

\* ------------------------------------------------------- Go maps, slices
\* A Go map field is either nil (never assigned) or a map value.
EmptyMap == [k \in {} |-> k]
NilMap == [isNil |-> TRUE, m |-> EmptyMap]
MakeMap(f) == [isNil |-> FALSE, m |-> f]
\* v, ok := m[k] reads a nil map as an empty one.
HasKey(mp, k) == k \in DOMAIN mp.m
\* m[k] = v
MapSet(mp, k, v) ==
  [mp EXCEPT !.m = [x \in (DOMAIN mp.m) \cup {k} |-> IF x = k THEN v ELSE mp.m[x]]]
\* delete(m, k)
MapDelete(mp, k) ==
  [mp EXCEPT !.m = [x \in (DOMAIN mp.m) \ {k} |-> mp.m[x]]]
\* m[k] for a map of slices: a missing key reads as the nil slice.
SliceAt(mp, k) == IF HasKey(mp, k) THEN mp.m[k] ELSE <<>>
\* append(s[:i], s[i+1:]...) with a 0-based index i < len(s)
RemoveAt(s, i) == SubSeq(s, 1, i) \o SubSeq(s, i + 2, Len(s))
\* s[i+1:] panics when i+1 > len(s); s[:i] alone panics only beyond cap(s).
SlicePanics(s, i) == i + 1 > Len(s)

\* ------------------------------------------------- decimal text of big.Int
Digits == <<"0", "1", "2", "3", "4", "5", "6", "7", "8", "9">>
DigitSet == {Digits[i] : i \in 1..10}
DigitVal(ch) == (CHOOSE i \in 1..10 : Digits[i] = ch) - 1

RECURSIVE NatString(_)
NatString(n) ==
  IF n < 10 THEN <<Digits[n + 1]>>
  ELSE NatString(n \div 10) \o <<Digits[(n % 10) + 1]>>

\* (*big.Int).String(): canonical base-10 text.
IntString(n) == IF n < 0 THEN <<"-">> \o NatString(-n) ELSE NatString(n)

RECURSIVE DigitsValue(_, _)
DigitsValue(s, acc) ==
  IF s = <<>> THEN acc
  ELSE DigitsValue(Tail(s), acc * 10 + DigitVal(Head(s)))

\* (*big.Int).SetString(s, 10): optional sign, then at least one digit.
SetStringOk(s) ==
  LET body == IF s # <<>> /\ Head(s) \in {"+", "-"} THEN Tail(s) ELSE s
  IN  body # <<>> /\ \A i \in 1..Len(body) : body[i] \in DigitSet
SetStringValue(s) ==
  IF Head(s) = "-" THEN 0 - DigitsValue(Tail(s), 0)
  ELSE IF Head(s) = "+" THEN DigitsValue(Tail(s), 0)
  ELSE DigitsValue(s, 0)

\* ------------------------------------------------------------------ state
\* The name and symbol the contract is made with.
TestName == "test"
TestSymbol == "TEST"

VARIABLES
  TokenOwners,      \* map[string]string, nil until loaded
  OwnedTokens,      \* map[string][]string, nil until loaded
  OwnedTokenIndex,  \* map[string]uint64, nil until loaded
  TotalTokens,      \* decimal text, "" until loaded
  BigZero,          \* value held by the shared *big.Int BigZero
  ContractName,     \* the contract's name, set by NewDefaultContract
  ContractSymbol,   \* the contract's symbol, set by NewDefaultContract
  store,            \* the contract's heap objects on DragonChain
  panicked,         \* a run-time panic has ended the process
  last,             \* the last call: operation, arguments, results
  calls,            \* number of calls made so far
  mintLog,          \* history: the successful mints while only Mint was called
  eager,            \* a second contract, populated from the heap before its calls
  run,              \* one execution of Runtime.Run
  context           \* the Context of a Contract of nft.go and its maps

ledger == <<TokenOwners, OwnedTokens, OwnedTokenIndex, TotalTokens>>
identity == <<ContractName, ContractSymbol>>
vars == <<TokenOwners, OwnedTokens, OwnedTokenIndex, TotalTokens, BigZero,
          ContractName, ContractSymbol,
          store, panicked, last, calls, mintLog, eager, run, context>>
\* What the calls on the DefaultContract leave alone.
others == <<eager, run, context>>

\* The receiver *DefaultContract together with the package variable BigZero.
Contract ==
  [TokenOwners |-> TokenOwners, OwnedTokens |-> OwnedTokens,
   OwnedTokenIndex |-> OwnedTokenIndex, TotalTokens |-> TotalTokens,
   BigZero |-> BigZero,
   ContractName |-> ContractName, ContractSymbol |-> ContractSymbol]

\* ------------------------------------------------------------ store access
Keys == {"tokenOwners", "ownedTokens", "ownedTokenIndex", "totalSupply"}
\* What one GetSmartContractObject call does: fails, answers !OK, or answers.
Responses == {"ok", "err", "notok"}

GetDragonObject(key, resp) ==
  IF resp[key] = "err" THEN [data |-> <<>>, err |-> ErrClient]
  ELSE IF resp[key] = "notok" THEN [data |-> <<>>, err |-> ErrBadStatus]
  ELSE [data |-> store[key], err |-> NoErr]

fetchOwnedTokensEmptyOnError(c, resp) ==
  LET r == GetDragonObject("ownedTokens", resp)
  IN  IF r.err # NoErr
        THEN [c |-> [c EXCEPT !.OwnedTokens = MakeMap(r.data)], err |-> r.err]
        ELSE [c |-> [c EXCEPT !.OwnedTokens = MakeMap(r.data)], err |-> NoErr]

fetchOwnedTokens(c, resp) ==
  LET r == GetDragonObject("ownedTokens", resp)
  IN  IF r.err # NoErr THEN [c |-> c, err |-> r.err]
      ELSE [c |-> [c EXCEPT !.OwnedTokens = MakeMap(r.data)], err |-> NoErr]

fetchTokenOwners(c, resp) ==
  LET r == GetDragonObject("tokenOwners", resp)
  IN  IF r.err # NoErr THEN [c |-> c, err |-> r.err]
      ELSE [c |-> [c EXCEPT !.TokenOwners = MakeMap(r.data)], err |-> NoErr]

fetchOwnedTokenIndices(c, resp) ==
  LET r == GetDragonObject("ownedTokenIndex", resp)
  IN  IF r.err # NoErr THEN [c |-> c, err |-> r.err]
      ELSE [c |-> [c EXCEPT !.OwnedTokenIndex = MakeMap(r.data)], err |-> NoErr]

\* BigIntString returns a fresh big.Int, or the shared BigZero with an error.
\* shared tells whether the returned pointer is BigZero itself.
BigIntString(s, bigZero) ==
  IF SetStringOk(s)
    THEN [val |-> SetStringValue(s), shared |-> FALSE, err |-> NoErr]
    ELSE [val |-> bigZero, shared |-> TRUE, err |-> ErrInvalidBigIntString]

fetchTotalSupplyStrict(c, resp) ==
  LET r == GetDragonObject("totalSupply", resp)
  IN  IF r.err # NoErr THEN [val |-> 0, shared |-> FALSE, err |-> r.err]
      ELSE BigIntString(r.data, c.BigZero)

fetchTotalSupply(c, resp) ==
  LET r == GetDragonObject("totalSupply", resp)
  IN  IF r.err # NoErr THEN [val |-> 0, shared |-> FALSE, err |-> r.err]
      ELSE LET i == BigIntString(r.data, c.BigZero)
           IN  IF i.err = ErrInvalidBigIntString
                 THEN [val |-> c.BigZero, shared |-> TRUE, err |-> NoErr]
                 ELSE i

\* "if c.X == nil { if err := c.fetchX(); err != nil { return err } }"
loadTokenOwners(c, resp) ==
  IF c.TokenOwners.isNil THEN fetchTokenOwners(c, resp) ELSE [c |-> c, err |-> NoErr]
loadOwnedTokens(c, resp) ==
  IF c.OwnedTokens.isNil THEN fetchOwnedTokens(c, resp) ELSE [c |-> c, err |-> NoErr]
loadOwnedTokenIndex(c, resp) ==
  IF c.OwnedTokenIndex.isNil THEN fetchOwnedTokenIndices(c, resp)
  ELSE [c |-> c, err |-> NoErr]

\* The three guarded fetches that open Transfer, removeToken and addToken.
loadMaps(c, resp) ==
  LET r1 == loadTokenOwners(c, resp)
  IN  IF r1.err # NoErr THEN r1
      ELSE LET r2 == loadOwnedTokens(r1.c, resp)
           IN  IF r2.err # NoErr THEN r2
               ELSE loadOwnedTokenIndex(r2.c, resp)

\* ------------------------------------------------------------- operations
TokensOwnedByNilError(c, owner, resp) ==
  LET r == loadOwnedTokens(c, resp)
  IN  IF r.err # NoErr THEN [c |-> r.c, tokens |-> <<>>, err |-> r.err]
      ELSE [c |-> r.c, tokens |-> SliceAt(r.c.OwnedTokens, owner), err |-> NoErr]

OwnerOfRefetching(c, tokenID, resp) ==
  LET r == fetchTokenOwners(c, resp)
  IN  IF r.err # NoErr THEN [c |-> r.c, owner |-> "", err |-> r.err]
      ELSE IF HasKey(r.c.TokenOwners, tokenID)
        THEN [c |-> r.c, owner |-> r.c.TokenOwners.m[tokenID], err |-> NoErr]
        ELSE [c |-> r.c, owner |-> "", err |-> ErrNoExist]

OwnerOfFirstOwner(c, tokenID, resp) ==
  LET r == loadTokenOwners(c, resp)
  IN  IF r.err # NoErr THEN [c |-> r.c, owner |-> "", err |-> r.err]
      ELSE IF HasKey(r.c.TokenOwners, tokenID)
        THEN [c |-> r.c, owner |-> OwnerNames[1], err |-> NoErr]
        ELSE [c |-> r.c, owner |-> "", err |-> ErrNoExist]

NameClearing(c) == [c |-> [c EXCEPT !.ContractName = ""], text |-> c.ContractName]

Name(c) == [c |-> c, text |-> c.ContractName]

Symbol(c) == [c |-> c, text |-> c.ContractSymbol]

TokensOwnedBy(c, owner, resp) ==
  LET r == loadOwnedTokens(c, resp)
  IN  IF r.err # NoErr THEN [c |-> r.c, tokens |-> <<>>, err |-> r.err]
      ELSE IF HasKey(r.c.OwnedTokens, owner)
        THEN [c |-> r.c, tokens |-> r.c.OwnedTokens.m[owner], err |-> NoErr]
        ELSE [c |-> r.c, tokens |-> <<>>, err |-> ErrNoExist]

BalanceOf(c, owner, resp) ==
  LET r == TokensOwnedBy(c, owner, resp)
  IN  [c |-> r.c, balance |-> Len(r.tokens), err |-> r.err]

OwnerOf(c, tokenID, resp) ==
  LET r == loadTokenOwners(c, resp)
  IN  IF r.err # NoErr THEN [c |-> r.c, owner |-> "", err |-> r.err]
      ELSE IF HasKey(r.c.TokenOwners, tokenID)
        THEN [c |-> r.c, owner |-> r.c.TokenOwners.m[tokenID], err |-> NoErr]
        ELSE [c |-> r.c, owner |-> "", err |-> ErrNoExist]

TotalSupply(c, resp) ==
  LET p == BigIntString(c.TotalTokens, c.BigZero)
  IN  IF p.err = NoErr THEN [c |-> c, val |-> p.val, shared |-> FALSE, err |-> NoErr]
      ELSE LET f == fetchTotalSupply(c, resp)
           IN  IF f.err # NoErr
                 THEN [c |-> c, val |-> c.BigZero, shared |-> TRUE, err |-> f.err]
                 ELSE [c |-> [c EXCEPT !.TotalTokens = IntString(f.val)],
                       val |-> f.val, shared |-> f.shared, err |-> NoErr]

StoreSupplyKept(c, t, n) == c

\* x.Add(x, bigOne) / x.Sub(x, bigOne) store into x: when x is the shared
\* BigZero, BigZero itself takes the new value.
StoreSupply(c, t, n) ==
  [c EXCEPT !.TotalTokens = IntString(n),
            !.BigZero = IF t.shared THEN n ELSE c.BigZero]

\* OwnedTokens[to] = append(OwnedTokens[to], tid); OwnedTokenIndex[tid] = balance
appendTokenOffByOne(c, to, tid, balance) ==
  [c EXCEPT !.OwnedTokens = MapSet(c.OwnedTokens, to, Append(SliceAt(c.OwnedTokens, to), tid)),
            !.OwnedTokenIndex = MapSet(c.OwnedTokenIndex, tid, balance + 1)]

appendToken(c, to, tid, balance) ==
  [c EXCEPT !.OwnedTokens = MapSet(c.OwnedTokens, to, Append(SliceAt(c.OwnedTokens, to), tid)),
            !.OwnedTokenIndex = MapSet(c.OwnedTokenIndex, tid, balance)]

unlinkTokenKeepingIndex(c, from, tid, tokenIndex) ==
  LET c1 == [c EXCEPT !.TokenOwners = MapDelete(c.TokenOwners, tid)]
      s  == SliceAt(c.OwnedTokens, from)
  IN  IF SlicePanics(s, tokenIndex) THEN [c |-> c1, panic |-> TRUE]
      ELSE LET s2 == RemoveAt(s, tokenIndex)
               ot == IF Len(s2) = 0 THEN MapDelete(c.OwnedTokens, from)
                     ELSE MapSet(c.OwnedTokens, from, s2)
           IN  [c |-> [c1 EXCEPT !.OwnedTokens = ot], panic |-> FALSE]

\* delete(TokenOwners, tid); cut position tokenIndex out of OwnedTokens[from];
\* drop from when its list is empty; delete(OwnedTokenIndex, tid).
\* The cut panics after the first delete when tokenIndex is out of range.
unlinkToken(c, from, tid, tokenIndex) ==
  LET c1 == [c EXCEPT !.TokenOwners = MapDelete(c.TokenOwners, tid)]
      s  == SliceAt(c.OwnedTokens, from)
  IN  IF SlicePanics(s, tokenIndex) THEN [c |-> c1, panic |-> TRUE]
      ELSE LET s2 == RemoveAt(s, tokenIndex)
               ot == IF Len(s2) = 0 THEN MapDelete(c.OwnedTokens, from)
                     ELSE MapSet(c.OwnedTokens, from, s2)
           IN  [c |-> [c1 EXCEPT !.OwnedTokens = ot,
                                 !.OwnedTokenIndex = MapDelete(c.OwnedTokenIndex, tid)],
                panic |-> FALSE]

removeToken(c, from, tid, resp) ==
  LET r == loadMaps(c, resp)
  IN  IF r.err # NoErr THEN [c |-> r.c, err |-> r.err, panic |-> FALSE]
      ELSE LET t == TotalSupply(r.c, resp)
           IN  IF t.err # NoErr THEN [c |-> t.c, err |-> t.err, panic |-> FALSE]
               ELSE IF ~HasKey(t.c.OwnedTokenIndex, tid)
                 THEN [c |-> t.c, err |-> ErrNoExist, panic |-> FALSE]
               ELSE LET u == unlinkToken(t.c, from, tid, t.c.OwnedTokenIndex.m[tid])
                    IN  IF u.panic THEN [c |-> u.c, err |-> NoErr, panic |-> TRUE]
                        ELSE [c |-> StoreSupply(u.c, t, t.val - 1),
                              err |-> NoErr, panic |-> FALSE]

\* "If the token ID already exists, we don't want to reuse it."
tokenExistsNever(c, tid) == FALSE

tokenExists(c, tid) == HasKey(c.TokenOwners, tid)

addToken(c, to, tid, resp) ==
  IF tokenExists(c, tid) THEN [c |-> c, err |-> ErrAlreadyExists]
  ELSE LET r == loadMaps(c, resp)
       IN  IF r.err # NoErr THEN [c |-> r.c, err |-> r.err]
           ELSE LET t == TotalSupply(r.c, resp)
                IN  IF t.err # NoErr THEN [c |-> t.c, err |-> t.err]
                    ELSE LET c1 == [t.c EXCEPT !.TokenOwners = MapSet(t.c.TokenOwners, tid, to)]
                             b  == BalanceOf(c1, to, resp)
                         IN  IF b.err # NoErr /\ b.err # ErrNoExist
                               THEN [c |-> b.c, err |-> b.err]
                               ELSE [c |-> StoreSupply(appendToken(b.c, to, tid, b.balance),
                                                       t, t.val + 1),
                                     err |-> NoErr]

Mint(c, to, tokenID, resp) == addToken(c, to, tokenID, resp)

BurnIgnoringOwnerOf(c, tokenID, resp) ==
  LET o == OwnerOf(c, tokenID, resp)
  IN  IF o.err # NoErr THEN [c |-> o.c, err |-> NoErr, panic |-> FALSE]
      ELSE removeToken(o.c, o.owner, tokenID, resp)

Burn(c, tokenID, resp) ==
  LET o == OwnerOf(c, tokenID, resp)
  IN  IF o.err # NoErr THEN [c |-> o.c, err |-> o.err, panic |-> FALSE]
      ELSE removeToken(o.c, o.owner, tokenID, resp)

\* The two checks of Transfer: the token has an index, from has a list.
transferCheckIndexOnly(c, from, tokenID) ==
  IF ~HasKey(c.OwnedTokenIndex, tokenID) THEN ErrNoExist ELSE NoErr

transferCheck(c, from, tokenID) ==
  IF ~HasKey(c.OwnedTokenIndex, tokenID) THEN ErrNoExist
  ELSE IF ~HasKey(c.OwnedTokens, from) THEN ErrNoExist
  ELSE NoErr

Transfer(c, from, to, tokenID, resp) ==
  LET r == loadMaps(c, resp)
  IN  IF r.err # NoErr THEN [c |-> r.c, err |-> r.err, panic |-> FALSE]
      ELSE LET b == BalanceOf(r.c, to, resp)
           IN  IF b.err # NoErr /\ b.err # ErrNoExist
                 THEN [c |-> b.c, err |-> b.err, panic |-> FALSE]
               ELSE IF transferCheck(b.c, from, tokenID) # NoErr
                 THEN [c |-> b.c, err |-> transferCheck(b.c, from, tokenID), panic |-> FALSE]
               ELSE LET u == unlinkToken(b.c, from, tokenID, b.c.OwnedTokenIndex.m[tokenID])
                    IN  IF u.panic THEN [c |-> u.c, err |-> NoErr, panic |-> TRUE]
                        ELSE [c |-> appendToken(
                                      [u.c EXCEPT !.TokenOwners = MapSet(u.c.TokenOwners, tokenID, to)],
                                      to, tokenID, b.balance),
                              err |-> NoErr, panic |-> FALSE]

\* ------------------------------------------------------------ the program
\* The heap of an empty ledger: empty objects, and a supply object that is
\* "0" or has no text yet ("not exist in heap").
EmptySupplyTexts == {<<"0">>, <<>>}

EmptyStore(supply) ==
  [tokenOwners |-> EmptyMap, ownedTokens |-> EmptyMap,
   ownedTokenIndex |-> EmptyMap, totalSupply |-> supply]

NoCall ==
  [op |-> "none", from |-> "", to |-> "", tid |-> "", err |-> NoErr,
   owner |-> "", n |-> 0, tokens |-> <<>>, text |-> ""]

\* NewDefaultContract leaves the four fields unset (loaded on first use);
\* the tests set them to the empty ledger before the first call, which is
\* the state of a contract whose fields mirror an empty heap.
InitLazy ==
  /\ TokenOwners = NilMap
  /\ OwnedTokens = NilMap
  /\ OwnedTokenIndex = NilMap
  /\ TotalTokens = <<>>

InitLoaded ==
  /\ TokenOwners = MakeMap(EmptyMap)
  /\ OwnedTokens = MakeMap(EmptyMap)
  /\ OwnedTokenIndex = MakeMap(EmptyMap)
  /\ TotalTokens = IntString(0)

\* A DefaultContract as NewDefaultContract returns it, in a new process.
FreshContract ==
  [TokenOwners |-> NilMap, OwnedTokens |-> NilMap, OwnedTokenIndex |-> NilMap,
   TotalTokens |-> <<>>, BigZero |-> 0,
   ContractName |-> TestName, ContractSymbol |-> TestSymbol]

\* No second contract, no Runtime.Run under way, no Contract of nft.go.
NoTwin == [c |-> FreshContract, call |-> NoCall]
NotRunning == [pc |-> "none"]
NoContext == [made |-> FALSE]

Init ==
  /\ \/ InitLazy /\ \E supply \in EmptySupplyTexts : store = EmptyStore(supply)
     \/ InitLoaded /\ store = EmptyStore(IntString(0))
  /\ BigZero = 0
  /\ ContractName = TestName
  /\ ContractSymbol = TestSymbol
  /\ panicked = FALSE
  /\ calls = 0
  /\ last = NoCall
  /\ mintLog = [valid |-> TRUE, rejected |-> FALSE, log |-> <<>>]
  /\ eager = NoTwin
  /\ run = NotRunning
  /\ context = NoContext

\* A call is made on a live process, within the bound on the calls.
Called ==
  /\ ~panicked
  /\ calls < MaxCalls
  /\ calls' = calls + 1

SetContract(c) ==
  /\ TokenOwners' = c.TokenOwners
  /\ OwnedTokens' = c.OwnedTokens
  /\ OwnedTokenIndex' = c.OwnedTokenIndex
  /\ TotalTokens' = c.TotalTokens
  /\ BigZero' = c.BigZero
  /\ ContractName' = c.ContractName
  /\ ContractSymbol' = c.ContractSymbol

LoggedTokens == {mintLog.log[i].tid : i \in 1..Len(mintLog.log)}

\* History of the mints: kept while every call so far was a Mint of a token
\* ID not minted before; a Mint stopped by a store failure is not counted.
MintLogAfterMint(to, tid, err) ==
  IF ~mintLog.valid \/ tid \in LoggedTokens
    THEN [valid |-> FALSE, rejected |-> FALSE, log |-> <<>>]
  ELSE IF err \in StoreErrors THEN mintLog
  ELSE IF err = NoErr
    THEN [mintLog EXCEPT !.log = Append(mintLog.log, [to |-> to, tid |-> tid])]
  ELSE [mintLog EXCEPT !.rejected = TRUE]

MintCall(to, tid, resp) ==
  /\ Called
  /\ LET r == Mint(Contract, to, tid, resp)
     IN  /\ SetContract(r.c)
         /\ last' = [NoCall EXCEPT !.op = "Mint", !.to = to, !.tid = tid, !.err = r.err]
         /\ mintLog' = MintLogAfterMint(to, tid, r.err)
  /\ UNCHANGED <<store, panicked>>

BurnCall(tid, resp) ==
  /\ Called
  /\ LET r == Burn(Contract, tid, resp)
     IN  /\ SetContract(r.c)
         /\ panicked' = r.panic
         /\ last' = [NoCall EXCEPT !.op = "Burn", !.tid = tid,
                                   !.err = IF r.panic THEN "panic" ELSE r.err]
  /\ mintLog' = [valid |-> FALSE, rejected |-> FALSE, log |-> <<>>]
  /\ UNCHANGED store

TransferCall(from, to, tid, resp) ==
  /\ Called
  /\ LET r == Transfer(Contract, from, to, tid, resp)
     IN  /\ SetContract(r.c)
         /\ panicked' = r.panic
         /\ last' = [NoCall EXCEPT !.op = "Transfer", !.from = from, !.to = to,
                                   !.tid = tid,
                                   !.err = IF r.panic THEN "panic" ELSE r.err]
  /\ mintLog' = [valid |-> FALSE, rejected |-> FALSE, log |-> <<>>]
  /\ UNCHANGED store

BalanceOfCall(owner, resp) ==
  /\ Called
  /\ LET r == BalanceOf(Contract, owner, resp)
     IN  /\ SetContract(r.c)
         /\ last' = [NoCall EXCEPT !.op = "BalanceOf", !.owner = owner,
                                   !.n = r.balance, !.err = r.err]
  /\ UNCHANGED <<store, panicked, mintLog>>

OwnerOfCall(tid, resp) ==
  /\ Called
  /\ LET r == OwnerOf(Contract, tid, resp)
     IN  /\ SetContract(r.c)
         /\ last' = [NoCall EXCEPT !.op = "OwnerOf", !.tid = tid,
                                   !.owner = r.owner, !.err = r.err]
  /\ UNCHANGED <<store, panicked, mintLog>>

TotalSupplyCall(resp) ==
  /\ Called
  /\ LET r == TotalSupply(Contract, resp)
     IN  /\ SetContract(r.c)
         /\ last' = [NoCall EXCEPT !.op = "TotalSupply", !.n = r.val, !.err = r.err]
  /\ UNCHANGED <<store, panicked, mintLog>>

TokensOwnedByCall(owner, resp) ==
  /\ Called
  /\ LET r == TokensOwnedBy(Contract, owner, resp)
     IN  /\ SetContract(r.c)
         /\ last' = [NoCall EXCEPT !.op = "TokensOwnedBy", !.owner = owner,
                                   !.tokens = r.tokens, !.err = r.err]
  /\ UNCHANGED <<store, panicked, mintLog>>

NameCall ==
  /\ Called
  /\ LET r == Name(Contract)
     IN  /\ SetContract(r.c)
         /\ last' = [NoCall EXCEPT !.op = "Name", !.text = r.text]
  /\ UNCHANGED <<store, panicked, mintLog>>

SymbolCall ==
  /\ Called
  /\ LET r == Symbol(Contract)
     IN  /\ SetContract(r.c)
         /\ last' = [NoCall EXCEPT !.op = "Symbol", !.text = r.text]
  /\ UNCHANGED <<store, panicked, mintLog>>

\* The fields a call would have to fetch: those still unset in memory.
Unloaded ==
  {k \in Keys :
     \/ k = "tokenOwners" /\ TokenOwners.isNil
     \/ k = "ownedTokens" /\ OwnedTokens.isNil
     \/ k = "ownedTokenIndex" /\ OwnedTokenIndex.isNil
     \/ k = "totalSupply" /\ ~SetStringOk(TotalTokens)}

\* The store's answers during one call. A call stops at its first failed
\* fetch and never fetches a loaded field, so one failing key among the
\* unloaded ones covers every outcome.
StoreAnswers ==
  {[k \in Keys |-> "ok"]} \cup
  {[k \in Keys |-> IF k = bad THEN how ELSE "ok"] :
     bad \in Unloaded, how \in Responses \ {"ok"}}

Next ==
  /\ \E resp \in StoreAnswers :
       \/ \E to \in Owners, tid \in Tokens : MintCall(to, tid, resp)
       \/ \E tid \in Tokens : BurnCall(tid, resp)
       \/ \E from \in Owners, to \in Owners, tid \in Tokens :
            TransferCall(from, to, tid, resp)
  /\ UNCHANGED others

Spec == Init /\ [][Next]_vars

\* The same contract with its four read operations called as well.
ReadNext ==
  /\ \/ \E resp \in StoreAnswers :
          \/ \E owner \in Owners : BalanceOfCall(owner, resp)
          \/ \E tid \in Tokens : OwnerOfCall(tid, resp)
          \/ TotalSupplyCall(resp)
          \/ \E owner \in Owners : TokensOwnedByCall(owner, resp)
     \/ NameCall
     \/ SymbolCall
  /\ UNCHANGED others

\* Mint, Burn and Transfer leave room for one more call, a read.
MaxWrites == MaxCalls - 1

SpecReads == Init /\ [][(calls < MaxWrites /\ Next) \/ ReadNext]_vars

\* ------------------------------------- a new contract over a persisted ledger
AllOk == [k \in Keys |-> "ok"]

LoadedEmpty ==
  [TokenOwners |-> MakeMap(EmptyMap), OwnedTokens |-> MakeMap(EmptyMap),
   OwnedTokenIndex |-> MakeMap(EmptyMap), TotalTokens |-> IntString(0),
   BigZero |-> 0, ContractName |-> TestName, ContractSymbol |-> TestSymbol]

\* The ledgers that up to n successful Mint calls build from the empty one.
RECURSIVE MintedLedgers(_)
MintedLedgers(n) ==
  IF n = 0 THEN {LoadedEmpty}
  ELSE LET prev == MintedLedgers(n - 1)
       IN  prev \cup {Mint(c, to, tid, AllOk).c : c \in prev, to \in Owners, tid \in Tokens}

PersistedLedgers == MintedLedgers(MaxTokens)

\* The heap objects holding a ledger, under the keys the fetches read.
HeapOf(c) ==
  [tokenOwners |-> c.TokenOwners.m, ownedTokens |-> c.OwnedTokens.m,
   ownedTokenIndex |-> c.OwnedTokenIndex.m, totalSupply |-> c.TotalTokens]

\* A contract whose four fields were all fetched from the heap.
Populated ==
  LET m == loadMaps(FreshContract, AllOk)
  IN  TotalSupply(m.c, AllOk).c

InitPersisted ==
  /\ \E c \in PersistedLedgers : store = HeapOf(c)
  /\ InitLazy
  /\ BigZero = 0
  /\ ContractName = TestName
  /\ ContractSymbol = TestSymbol
  /\ panicked = FALSE
  /\ calls = 0
  /\ last = NoCall
  /\ mintLog = [valid |-> FALSE, rejected |-> FALSE, log |-> <<>>]
  /\ eager = [c |-> Populated, call |-> NoCall]
  /\ run = NotRunning
  /\ context = NoContext

\* The same call on the populated contract, which never fetches.
EagerMint(to, tid) ==
  LET r == Mint(eager.c, to, tid, AllOk)
  IN  [c |-> r.c,
       call |-> [NoCall EXCEPT !.op = "Mint", !.to = to, !.tid = tid, !.err = r.err]]

EagerBurn(tid) ==
  LET r == Burn(eager.c, tid, AllOk)
  IN  [c |-> r.c,
       call |-> [NoCall EXCEPT !.op = "Burn", !.tid = tid,
                               !.err = IF r.panic THEN "panic" ELSE r.err]]

EagerTransfer(from, to, tid) ==
  LET r == Transfer(eager.c, from, to, tid, AllOk)
  IN  [c |-> r.c,
       call |-> [NoCall EXCEPT !.op = "Transfer", !.from = from, !.to = to,
                               !.tid = tid,
                               !.err = IF r.panic THEN "panic" ELSE r.err]]

EagerBalanceOf(owner) ==
  LET r == BalanceOf(eager.c, owner, AllOk)
  IN  [c |-> r.c,
       call |-> [NoCall EXCEPT !.op = "BalanceOf", !.owner = owner,
                               !.n = r.balance, !.err = r.err]]

EagerOwnerOf(tid) ==
  LET r == OwnerOf(eager.c, tid, AllOk)
  IN  [c |-> r.c,
       call |-> [NoCall EXCEPT !.op = "OwnerOf", !.tid = tid,
                               !.owner = r.owner, !.err = r.err]]

EagerTotalSupply ==
  LET r == TotalSupply(eager.c, AllOk)
  IN  [c |-> r.c,
       call |-> [NoCall EXCEPT !.op = "TotalSupply", !.n = r.val, !.err = r.err]]

EagerTokensOwnedBy(owner) ==
  LET r == TokensOwnedBy(eager.c, owner, AllOk)
  IN  [c |-> r.c,
       call |-> [NoCall EXCEPT !.op = "TokensOwnedBy", !.owner = owner,
                               !.tokens = r.tokens, !.err = r.err]]

\* One invocation: Run creates one contract and hands it one request. The
\* request is made on both contracts.
LazyNext ==
  /\ calls = 0
  /\ \E resp \in StoreAnswers :
       \/ \E to \in Owners, tid \in Tokens :
            MintCall(to, tid, resp) /\ eager' = EagerMint(to, tid)
       \/ \E tid \in Tokens :
            BurnCall(tid, resp) /\ eager' = EagerBurn(tid)
       \/ \E from \in Owners, to \in Owners, tid \in Tokens :
            TransferCall(from, to, tid, resp) /\ eager' = EagerTransfer(from, to, tid)
       \/ \E owner \in Owners :
            BalanceOfCall(owner, resp) /\ eager' = EagerBalanceOf(owner)
       \/ \E tid \in Tokens :
            OwnerOfCall(tid, resp) /\ eager' = EagerOwnerOf(tid)
       \/ TotalSupplyCall(resp) /\ eager' = EagerTotalSupply
       \/ \E owner \in Owners :
            TokensOwnedByCall(owner, resp) /\ eager' = EagerTokensOwnedBy(owner)
  /\ UNCHANGED <<run, context>>

SpecLazy == InitPersisted /\ [][LazyNext]_vars

\* ------------------------------------- a heap whose supply text is not sound
\* Text that SetString does not take.
NotANumber == <<"x">>

\* The totalSupply object of a heap: the count's decimal text, no text, or
\* text that is not a number.
SupplyTexts(c) == {c.TotalTokens, <<>>, NotANumber}

InitSupply ==
  /\ \E c \in PersistedLedgers : \E text \in SupplyTexts(c) :
       store = [HeapOf(c) EXCEPT !.totalSupply = text]
  /\ InitLazy
  /\ BigZero = 0
  /\ ContractName = TestName
  /\ ContractSymbol = TestSymbol
  /\ panicked = FALSE
  /\ calls = 0
  /\ last = NoCall
  /\ mintLog = [valid |-> FALSE, rejected |-> FALSE, log |-> <<>>]
  /\ eager = NoTwin
  /\ run = NotRunning
  /\ context = NoContext

\* A new contract takes one Mint, Burn or Transfer, and TotalSupply calls.
MaxSupplyCalls == MaxCalls - 2

SupplyNext ==
  \/ calls = 0 /\ Next
  \/ /\ calls < MaxSupplyCalls
     /\ \E resp \in StoreAnswers : TotalSupplyCall(resp)
     /\ UNCHANGED others

SpecSupply == InitSupply /\ [][SupplyNext]_vars

\* ------------------------------------------------- invocation after invocation
\* json.Marshal of the contract the handler returns: a map field that is nil
\* or empty and a TotalTokens that is "" are left out (omitempty); name
\* and symbol are always written.
Marshal(c) ==
  LET present ==
        {k \in {"tokenOwners", "ownedTokens", "ownedTokenIndex", "totalTokens"} :
           \/ k = "tokenOwners" /\ c.TokenOwners.m # EmptyMap
           \/ k = "ownedTokens" /\ c.OwnedTokens.m # EmptyMap
           \/ k = "ownedTokenIndex" /\ c.OwnedTokenIndex.m # EmptyMap
           \/ k = "totalTokens" /\ c.TotalTokens # <<>>}
          \cup {"name", "symbol"}
  IN  [k \in present |->
         CASE k = "tokenOwners" -> c.TokenOwners.m
           [] k = "ownedTokens" -> c.OwnedTokens.m
           [] k = "ownedTokenIndex" -> c.OwnedTokenIndex.m
           [] k = "totalTokens" -> c.TotalTokens
           [] k = "name" -> c.ContractName
           [] OTHER -> c.ContractSymbol]

\* The heap takes each key of the object written to stdout.
StoreOnHeap(heap, out) ==
  [k \in (DOMAIN heap) \cup (DOMAIN out) |-> IF k \in DOMAIN out THEN out[k] ELSE heap[k]]

\* The store's answers to a new contract: any one of its fetches may fail.
FreshAnswers ==
  {AllOk} \cup
  {[k \in Keys |-> IF k = bad THEN how ELSE "ok"] :
     bad \in Keys, how \in Responses \ {"ok"}}

\* Invocations made one after the other.
MaxInvocations == MaxCalls - 2

InitInvoke ==
  /\ InitLazy
  /\ \E supply \in EmptySupplyTexts : store = EmptyStore(supply)
  /\ BigZero = 0
  /\ ContractName = TestName
  /\ ContractSymbol = TestSymbol
  /\ panicked = FALSE
  /\ calls = 0
  /\ last = NoCall
  /\ mintLog = [valid |-> FALSE, rejected |-> FALSE, log |-> <<>>]
  /\ eager = NoTwin
  /\ run = NotRunning
  /\ context = NoContext

\* One run of the process: a new contract handles the request; the handler
\* returns the contract, Run writes it to stdout and the heap takes it. A
\* request that fails or panics ends the process with nothing written.
Invoked(call, c) ==
  /\ calls < MaxInvocations
  /\ calls' = calls + 1
  /\ SetContract(c)
  /\ last' = call
  /\ store' = IF call.err = NoErr THEN StoreOnHeap(store, Marshal(c)) ELSE store
  /\ UNCHANGED <<panicked, mintLog, eager, run, context>>

InvokeMint(to, tid, resp) ==
  LET r == Mint(FreshContract, to, tid, resp)
  IN  Invoked([NoCall EXCEPT !.op = "Mint", !.to = to, !.tid = tid, !.err = r.err], r.c)

InvokeBurn(tid, resp) ==
  LET r == Burn(FreshContract, tid, resp)
  IN  Invoked([NoCall EXCEPT !.op = "Burn", !.tid = tid,
                             !.err = IF r.panic THEN "panic" ELSE r.err], r.c)

InvokeTransfer(from, to, tid, resp) ==
  LET r == Transfer(FreshContract, from, to, tid, resp)
  IN  Invoked([NoCall EXCEPT !.op = "Transfer", !.from = from, !.to = to, !.tid = tid,
                             !.err = IF r.panic THEN "panic" ELSE r.err], r.c)

InvokeTotalSupply(resp) ==
  LET r == TotalSupply(FreshContract, resp)
  IN  Invoked([NoCall EXCEPT !.op = "TotalSupply", !.n = r.val, !.err = r.err], r.c)

InvokeNext ==
  \E resp \in FreshAnswers :
    \/ \E to \in Owners, tid \in Tokens : InvokeMint(to, tid, resp)
    \/ \E tid \in Tokens : InvokeBurn(tid, resp)
    \/ \E from \in Owners, to \in Owners, tid \in Tokens :
         InvokeTransfer(from, to, tid, resp)
    \/ InvokeTotalSupply(resp)

SpecInvoke == InitInvoke /\ [][InvokeNext]_vars

\* ------------------------------------------------------------ Runtime.Run
\* Run comes in two forms: with the contract's name and symbol read from the
\* environment and the handler's object JSON-encoded ("named"), and without
\* the two identity checks, printing the handler's bytes ("plain").
RunVariants == {"named", "plain"}
EnvValues == {"", "set"}
Payloads == {"rpc1", "rpc2"}
Replies == {"obj1", "obj2"}

RunSteps(variant) ==
  IF variant = "named"
    THEN <<"name", "symbol", "create", "stdin", "handle", "encode">>
    ELSE <<"create", "stdin", "handle", "print">>

\* json.Encoder.Encode writes the JSON text of obj and a newline.
Encode(obj) == <<obj, "\n">>
\* fmt.Print of a byte slice writes it in the %v form, in brackets.
PrintBytes(b) == <<"[", b, "]">>
\* What a failed write may have put on the stream: less than all of it.
PartialWrites(text) == {SubSeq(text, 1, n) : n \in 0..(Len(text) - 1)}

RunStart(variant, name, symbol) ==
  [variant |-> variant, name |-> name, symbol |-> symbol,
   pc |-> Head(RunSteps(variant)), done |-> <<>>, failed |-> "",
   b |-> "", obj |-> "", stdout |-> <<>>, stderr |-> <<>>, exit |-> 0 - 1]

InitRun ==
  /\ \E variant \in RunVariants, name \in EnvValues, symbol \in EnvValues :
       run = RunStart(variant, name, symbol)
  /\ InitLazy
  /\ store = EmptyStore(IntString(0))
  /\ BigZero = 0
  /\ ContractName = TestName
  /\ ContractSymbol = TestSymbol
  /\ panicked = FALSE
  /\ calls = 0
  /\ last = NoCall
  /\ mintLog = [valid |-> FALSE, rejected |-> FALSE, log |-> <<>>]
  /\ eager = NoTwin
  /\ context = NoContext

\* The step after step in this form of Run.
StepAfter(r, step) ==
  LET steps == RunSteps(r.variant)
      i == CHOOSE k \in 1..Len(steps) : steps[k] = step
  IN  IF i = Len(steps) THEN "exited" ELSE steps[i + 1]

\* fmt.Fprint(os.Stderr, msg); os.Exit(1)
Fail(r, step, msg) ==
  [r EXCEPT !.pc = "exited", !.done = Append(@, step), !.failed = step,
            !.stderr = Append(@, msg), !.exit = 1]

Pass(r, step) == [r EXCEPT !.pc = StepAfter(r, step), !.done = Append(@, step)]

CheckName ==
  /\ run.pc = "name"
  /\ run' = IF run.name = "" THEN Fail(run, "name", "no name provided for contract")
             ELSE Pass(run, "name")

CheckSymbol ==
  /\ run.pc = "symbol"
  /\ run' = IF run.symbol = "" THEN Fail(run, "symbol", "no symbol provided for contract")
             ELSE Pass(run, "symbol")

CreateContractStep ==
  /\ run.pc = "create"
  /\ \E ok \in BOOLEAN :
       run' = IF ok THEN Pass(run, "create")
              ELSE Fail(run, "create", "failed to create contract")

ReadStdin ==
  /\ run.pc = "stdin"
  /\ \E ok \in BOOLEAN, b \in Payloads :
       run' = IF ok THEN [Pass(run, "stdin") EXCEPT !.b = b]
              ELSE Fail(run, "stdin", "failed to read stdin")

HandleRPCGoingOn ==
  /\ run.pc = "handle"
  /\ \E ok \in BOOLEAN, obj \in Replies :
       run' = IF ok THEN [Pass(run, "handle") EXCEPT !.obj = obj]
              ELSE [Pass(run, "handle") EXCEPT
                      !.failed = "handle",
                      !.stderr = Append(@, "failed to handle RPC")]

HandleRPC ==
  /\ run.pc = "handle"
  /\ \E ok \in BOOLEAN, obj \in Replies :
       run' = IF ok THEN [Pass(run, "handle") EXCEPT !.obj = obj]
              ELSE Fail(run, "handle", "failed to handle RPC")

\* Encode fails before writing (the object has no JSON form) or while
\* writing; otherwise Run returns and the process ends with code 0.
EncodeReply ==
  /\ run.pc = "encode"
  /\ \/ run' = [Pass(run, "encode") EXCEPT !.stdout = Encode(run.obj), !.exit = 0]
     \/ run' = Fail(run, "encode", "failed to JSON encode heap output")
     \/ \E part \in PartialWrites(Encode(run.obj)) :
          run' = [Fail(run, "encode", "failed to JSON encode heap output")
                    EXCEPT !.stdout = part]

\* fmt.Print(b): its error is dropped, Run returns.
PrintReply ==
  /\ run.pc = "print"
  /\ \E text \in {PrintBytes(run.obj)} \cup PartialWrites(PrintBytes(run.obj)) :
       run' = [Pass(run, "print") EXCEPT !.stdout = text, !.exit = 0]

RunNext ==
  /\ \/ CheckName
     \/ CheckSymbol
     \/ CreateContractStep
     \/ ReadStdin
     \/ HandleRPC
     \/ EncodeReply
     \/ PrintReply
  /\ UNCHANGED <<TokenOwners, OwnedTokens, OwnedTokenIndex, TotalTokens, BigZero,
                 ContractName, ContractSymbol,
                 store, panicked, last, calls, mintLog, eager, context>>

SpecRun == InitRun /\ [][RunNext]_vars

\* --------------------------------------------- Contract of nft.go: metadata
\* Token IDs are big integers; the maps are keyed by their decimal text.
TokenIDs == 1..MaxTokens
MetaKeys == {"colour"}
MetaValues == {"red", "blue"}

\* A map[string]interface{} is a reference: maps holds what each reference
\* points to, TokenMetadata holds references.
\* &Context{}: every field has its zero value, TokenMetadata is nil.
ZeroContext == [TokenMetadata |-> NilMap, maps |-> EmptyMap]

\* Contexts decoded from a heap that holds metadata for some tokens: the
\* map of token id is reference id, empty or with one entry.
MetadataContents == {EmptyMap} \cup {[k \in MetaKeys |-> v] : v \in MetaValues}

PresentContexts ==
  {[TokenMetadata |-> MakeMap([id \in {IntString(i) : i \in S} |-> SetStringValue(id)]),
    maps |-> f] :
     S \in SUBSET TokenIDs, f \in UNION {[S2 -> MetadataContents] : S2 \in SUBSET TokenIDs}}

\* The options of NewContract: none, or WithContext(ctx) with a Context
\* whose TokenMetadata is absent (nil) or present.
ContextOptions ==
  {[with |-> FALSE, ctx |-> ZeroContext], [with |-> TRUE, ctx |-> ZeroContext]}
    \cup {[with |-> TRUE, ctx |-> c] :
             c \in {p \in PresentContexts :
                      DOMAIN p.maps = {p.TokenMetadata.m[k] : k \in DOMAIN p.TokenMetadata.m}}}

NewContract(opt) == IF opt.with THEN opt.ctx ELSE ZeroContext

\* make(map[string]interface{}): a reference not used before.
NewRef(maps) ==
  IF DOMAIN maps = {} THEN 1
  ELSE (CHOOSE r \in DOMAIN maps : \A q \in DOMAIN maps : q <= r) + 1

\* m[k] = v on a nil map panics.
AssignPanics(mp) == mp.isNil

MetadataFor(ctx, tokenID) ==
  LET key == IntString(tokenID)
  IN  IF HasKey(ctx.TokenMetadata, key)
        THEN [ctx |-> ctx, ret |-> ctx.TokenMetadata.m[key], made |-> FALSE, panic |-> FALSE]
      ELSE LET ref == NewRef(ctx.maps)
               c1 == [ctx EXCEPT !.maps = [r \in (DOMAIN ctx.maps) \cup {ref} |->
                                             IF r = ref THEN EmptyMap ELSE ctx.maps[r]]]
           IN  IF AssignPanics(ctx.TokenMetadata)
                 THEN [ctx |-> c1, ret |-> 0, made |-> TRUE, panic |-> TRUE]
                 ELSE [ctx |-> [c1 EXCEPT !.TokenMetadata = MapSet(ctx.TokenMetadata, key, ref)],
                       ret |-> ref, made |-> TRUE, panic |-> FALSE]

NoMetaCall == [op |-> "none", id |-> 0, ret |-> 0, made |-> FALSE]

InitMetadata ==
  /\ \E opt \in ContextOptions :
       context = [made |-> TRUE, with |-> opt.with, ctx |-> NewContract(opt),
                  panicked |-> FALSE, steps |-> 0, last |-> NoMetaCall, prev |-> NoMetaCall]
  /\ InitLazy
  /\ store = EmptyStore(IntString(0))
  /\ BigZero = 0
  /\ ContractName = TestName
  /\ ContractSymbol = TestSymbol
  /\ panicked = FALSE
  /\ calls = 0
  /\ last = NoCall
  /\ mintLog = [valid |-> FALSE, rejected |-> FALSE, log |-> <<>>]
  /\ eager = NoTwin
  /\ run = NotRunning

MetadataForCall(tokenID) ==
  /\ ~context.panicked
  /\ context.steps < MaxCalls
  /\ LET r == MetadataFor(context.ctx, tokenID)
     IN  context' = [context EXCEPT
                       !.ctx = r.ctx, !.panicked = r.panic, !.steps = @ + 1,
                       !.prev = context.last,
                       !.last = [op |-> "MetadataFor", id |-> tokenID,
                                 ret |-> r.ret, made |-> r.made]]

\* The caller writes meta[k] = v into the map the last call returned.
WriteMetadata(k, v) ==
  /\ ~context.panicked
  /\ context.steps < MaxCalls
  /\ context.last.op = "MetadataFor"
  /\ LET ref == context.last.ret
         m == context.ctx.maps[ref]
     IN  context' = [context EXCEPT
                       !.ctx.maps[ref] = [x \in (DOMAIN m) \cup {k} |->
                                            IF x = k THEN v ELSE m[x]],
                       !.steps = @ + 1,
                       !.prev = context.last,
                       !.last = [op |-> "write", id |-> context.last.id,
                                 ret |-> ref, made |-> FALSE]]

MetadataNext ==
  /\ \/ \E tokenID \in TokenIDs : MetadataForCall(tokenID)
     \/ \E k \in MetaKeys, v \in MetaValues : WriteMetadata(k, v)
  /\ UNCHANGED <<TokenOwners, OwnedTokens, OwnedTokenIndex, TotalTokens, BigZero,
                 ContractName, ContractSymbol,
                 store, panicked, last, calls, mintLog, eager, run>>

SpecMetadata == InitMetadata /\ [][MetadataNext]_vars

\* ----------------------------------------------- Contract of nft.go: ledger
\* BigIntString of nft.go: SetString on the text as it is ("" does not parse);
\* a failed SetString returns nil.
ContextBigIntString(s) ==
  [ok |-> SetStringOk(s), nil |-> ~SetStringOk(s),
   val |-> IF SetStringOk(s) THEN SetStringValue(s) ELSE 0]

\* &Context{}: nil maps, no supply text.
ZeroLedger ==
  [TokenOwners |-> NilMap, OwnedTokens |-> NilMap, OwnedTokenIndex |-> NilMap,
   TotalTokens |-> <<>>]

\* The Contexts decoded from a heap that holds the tokens 1..n, each with
\* an owner, in its owner's list at the position the index names.
RECURSIVE IssuedLedgers(_)
IssuedLedgers(n) ==
  IF n = 0
    THEN {[TokenOwners |-> MakeMap(EmptyMap), OwnedTokens |-> MakeMap(EmptyMap),
           OwnedTokenIndex |-> MakeMap(EmptyMap), TotalTokens |-> IntString(0)]}
  ELSE {[TokenOwners |-> MapSet(c.TokenOwners, IntString(n), to),
         OwnedTokens |-> MapSet(c.OwnedTokens, to,
                                Append(SliceAt(c.OwnedTokens, to), IntString(n))),
         OwnedTokenIndex |-> MapSet(c.OwnedTokenIndex, IntString(n),
                                    Len(SliceAt(c.OwnedTokens, to))),
         TotalTokens |-> IntString(n)] :
          c \in IssuedLedgers(n - 1), to \in Owners}

LedgerContexts == {ZeroLedger} \cup UNION {IssuedLedgers(n) : n \in 0..MaxTokens}

ContextBalanceOf(ctx, owner) == Len(SliceAt(ctx.OwnedTokens, owner))

ContextOwnerOf(ctx, tokenID) ==
  IF HasKey(ctx.TokenOwners, IntString(tokenID))
    THEN [owner |-> ctx.TokenOwners.m[IntString(tokenID)], ok |-> TRUE]
    ELSE [owner |-> "", ok |-> FALSE]

\* Transfer of nft.go: returns early without the index entry or a supply
\* that parses; otherwise cuts, appends and adds one to TotalTokens.
ContextTransfer(ctx, from, to, tokenID) ==
  LET tid == IntString(tokenID)
      totalTokens == ContextBigIntString(ctx.TotalTokens)
  IN  IF ~HasKey(ctx.OwnedTokenIndex, tid) THEN [ctx |-> ctx, panic |-> FALSE]
      ELSE IF ~totalTokens.ok THEN [ctx |-> ctx, panic |-> FALSE]
      ELSE LET tokenIndex == ctx.OwnedTokenIndex.m[tid]
               c1 == [ctx EXCEPT !.TokenOwners = MapDelete(ctx.TokenOwners, tid)]
           IN  IF SlicePanics(SliceAt(c1.OwnedTokens, from), tokenIndex)
                   \/ AssignPanics(c1.OwnedTokens)
                 THEN [ctx |-> c1, panic |-> TRUE]
               ELSE LET c2 == [c1 EXCEPT
                                 !.OwnedTokens = MapSet(c1.OwnedTokens, from,
                                     RemoveAt(SliceAt(c1.OwnedTokens, from), tokenIndex)),
                                 !.OwnedTokenIndex = MapDelete(c1.OwnedTokenIndex, tid)]
                    IN  IF AssignPanics(c2.TokenOwners) THEN [ctx |-> c2, panic |-> TRUE]
                        ELSE LET balance == ContextBalanceOf(c2, to)
                             IN  [ctx |-> [c2 EXCEPT
                                    !.TokenOwners = MapSet(c2.TokenOwners, tid, to),
                                    !.OwnedTokens = MapSet(c2.OwnedTokens, to,
                                        Append(SliceAt(c2.OwnedTokens, to), tid)),
                                    !.OwnedTokenIndex = MapSet(c2.OwnedTokenIndex, tid, balance),
                                    !.TotalTokens = IntString(totalTokens.val + 1)],
                                  panic |-> FALSE]

\* TotalSupply of nft.go: the parsed TotalTokens, or BigZero.
ContextTotalSupply(ctx) ==
  LET totalSupply == ContextBigIntString(ctx.TotalTokens)
  IN  IF totalSupply.ok THEN totalSupply.val ELSE 0

\* tokens[idx] panics when idx is not below len(tokens).
IndexPanics(tokens, idx) == idx >= Len(tokens)

InRangeAlways(tokens, idx) == TRUE

InRange(tokens, idx) == idx < Len(tokens)

TokenOfOwnerByIndex(ctx, owner, idx) ==
  LET tokens == SliceAt(ctx.OwnedTokens, owner)
  IN  IF HasKey(ctx.OwnedTokens, owner) /\ InRange(tokens, idx)
        THEN IF IndexPanics(tokens, idx)
               THEN [ok |-> FALSE, nil |-> TRUE, val |-> 0, panic |-> TRUE]
               ELSE [ok |-> ContextBigIntString(tokens[idx + 1]).ok,
                     nil |-> ContextBigIntString(tokens[idx + 1]).nil,
                     val |-> ContextBigIntString(tokens[idx + 1]).val,
                     panic |-> FALSE]
        ELSE [ok |-> FALSE, nil |-> TRUE, val |-> 0, panic |-> FALSE]

NoLedgerCall ==
  [op |-> "none", from |-> "", to |-> "", id |-> 0, owner |-> "", idx |-> 0,
   n |-> 0, ok |-> FALSE, nil |-> FALSE]

\* Indexes asked for: inside and past the longest list.
Indexes == 0..MaxTokens

InitContext ==
  /\ \E ctx \in LedgerContexts :
       context = [made |-> TRUE, ctx |-> ctx, panicked |-> FALSE, steps |-> 0,
                  last |-> NoLedgerCall]
  /\ InitLazy
  /\ store = EmptyStore(IntString(0))
  /\ BigZero = 0
  /\ ContractName = TestName
  /\ ContractSymbol = TestSymbol
  /\ panicked = FALSE
  /\ calls = 0
  /\ last = NoCall
  /\ mintLog = [valid |-> FALSE, rejected |-> FALSE, log |-> <<>>]
  /\ eager = NoTwin
  /\ run = NotRunning

\* Calls made on one Contract.
MaxContextCalls == MaxCalls - 2

ContextCalled(ctx, panic, call) ==
  /\ ~context.panicked
  /\ context.steps < MaxContextCalls
  /\ context' = [context EXCEPT !.ctx = ctx, !.panicked = panic, !.steps = @ + 1,
                                !.last = call]

ContextTransferCall(from, to, tokenID) ==
  LET r == ContextTransfer(context.ctx, from, to, tokenID)
  IN  ContextCalled(r.ctx, r.panic,
                    [NoLedgerCall EXCEPT !.op = "Transfer", !.from = from, !.to = to,
                                         !.id = tokenID])

ContextBalanceOfCall(owner) ==
  ContextCalled(context.ctx, FALSE,
                [NoLedgerCall EXCEPT !.op = "BalanceOf", !.owner = owner,
                                     !.n = ContextBalanceOf(context.ctx, owner)])

ContextOwnerOfCall(tokenID) ==
  LET r == ContextOwnerOf(context.ctx, tokenID)
  IN  ContextCalled(context.ctx, FALSE,
                    [NoLedgerCall EXCEPT !.op = "OwnerOf", !.id = tokenID,
                                         !.owner = r.owner, !.ok = r.ok])

ContextTotalSupplyCall ==
  ContextCalled(context.ctx, FALSE,
                [NoLedgerCall EXCEPT !.op = "TotalSupply",
                                     !.n = ContextTotalSupply(context.ctx)])

TokenOfOwnerByIndexCall(owner, idx) ==
  LET r == TokenOfOwnerByIndex(context.ctx, owner, idx)
  IN  ContextCalled(context.ctx, r.panic,
                    [NoLedgerCall EXCEPT !.op = "TokenOfOwnerByIndex", !.owner = owner,
                                         !.idx = idx, !.n = r.val, !.ok = r.ok,
                                         !.nil = r.nil])

ContextNext ==
  /\ \/ \E from \in Owners, to \in Owners, tokenID \in TokenIDs :
          ContextTransferCall(from, to, tokenID)
     \/ \E owner \in Owners : ContextBalanceOfCall(owner)
     \/ \E tokenID \in TokenIDs : ContextOwnerOfCall(tokenID)
     \/ ContextTotalSupplyCall
     \/ \E owner \in Owners, idx \in Indexes : TokenOfOwnerByIndexCall(owner, idx)
  /\ UNCHANGED <<TokenOwners, OwnedTokens, OwnedTokenIndex, TotalTokens, BigZero,
                 ContractName, ContractSymbol,
                 store, panicked, last, calls, mintLog, eager, run>>

SpecContext == InitContext /\ [][ContextNext]_vars

\* ------------------------------- DefaultContract decoded from the heap JSON
\* The DefaultContract of part_005 holds the whole ledger, decoded by
\* CreateContract from the heap; its operations return no error.
BigNegOne == -1

\* BigIntString of part_005: "" is read as "0".
SnapshotBigIntString(s) ==
  LET t == IF s = <<>> THEN <<"0">> ELSE s
  IN  [ok |-> SetStringOk(t), val |-> IF SetStringOk(t) THEN SetStringValue(t) ELSE 0]

\* if c.X == nil { c.X = make(...) }
MakeIfNil(mp) == [mp EXCEPT !.isNil = FALSE]

MakeMaps(c) ==
  [c EXCEPT !.TokenOwners = MakeIfNil(c.TokenOwners),
            !.OwnedTokens = MakeIfNil(c.OwnedTokens),
            !.OwnedTokenIndex = MakeIfNil(c.OwnedTokenIndex)]

SnapshotBalanceOf(c, owner) ==
  [c |-> [c EXCEPT !.OwnedTokens = MakeIfNil(c.OwnedTokens)],
   balance |-> Len(SliceAt(c.OwnedTokens, owner))]

\* TotalSupply: the parsed text, or BigNegOne itself when it does not parse.
SnapshotTotalSupply(c) ==
  LET totalSupply == SnapshotBigIntString(c.TotalTokens)
  IN  IF totalSupply.ok THEN [val |-> totalSupply.val, isNegOne |-> FALSE]
      ELSE [val |-> BigNegOne, isNegOne |-> TRUE]

SnapshotRemoveToken(c, from, tid) ==
  LET c0 == MakeMaps(c)
      totalTokens == SnapshotBigIntString(c0.TotalTokens)
  IN  IF ~totalTokens.ok THEN [c |-> c0, panic |-> FALSE]
      ELSE IF ~HasKey(c0.OwnedTokenIndex, tid) THEN [c |-> c0, panic |-> FALSE]
      ELSE LET tokenIndex == c0.OwnedTokenIndex.m[tid]
               c1 == [c0 EXCEPT !.TokenOwners = MapDelete(c0.TokenOwners, tid)]
           IN  IF SlicePanics(SliceAt(c1.OwnedTokens, from), tokenIndex)
                 THEN [c |-> c1, panic |-> TRUE]
               ELSE [c |-> [c1 EXCEPT
                              !.OwnedTokens = MapSet(c1.OwnedTokens, from,
                                  RemoveAt(SliceAt(c1.OwnedTokens, from), tokenIndex)),
                              !.OwnedTokenIndex = MapDelete(c1.OwnedTokenIndex, tid),
                              !.TotalTokens = IntString(totalTokens.val - 1)],
                     panic |-> FALSE]

SnapshotAddToken(c, to, tid) ==
  LET c0 == MakeMaps(c)
      totalTokens == SnapshotBigIntString(c0.TotalTokens)
  IN  IF ~totalTokens.ok THEN c0
      ELSE LET c1 == [c0 EXCEPT !.TokenOwners = MapSet(c0.TokenOwners, tid, to)]
               balance == SnapshotBalanceOf(c1, to).balance
           IN  [c1 EXCEPT !.OwnedTokens = MapSet(c1.OwnedTokens, to,
                                                 Append(SliceAt(c1.OwnedTokens, to), tid)),
                          !.OwnedTokenIndex = MapSet(c1.OwnedTokenIndex, tid, balance),
                          !.TotalTokens = IntString(totalTokens.val + 1)]

\* Mint(to): the new token's ID is TotalSupply() + 1.
SnapshotMint(c, to) ==
  LET total == SnapshotTotalSupply(c)
  IN  IF total.isNegOne THEN [c |-> c, tid |-> <<>>, minted |-> FALSE]
      ELSE [c |-> SnapshotAddToken(c, to, IntString(total.val + 1)),
            tid |-> IntString(total.val + 1), minted |-> TRUE]

SnapshotBurn(c, tokenID) ==
  IF c.TokenOwners.isNil THEN [c |-> c, panic |-> FALSE]
  ELSE IF HasKey(c.TokenOwners, IntString(tokenID))
    THEN SnapshotRemoveToken(c, c.TokenOwners.m[IntString(tokenID)], IntString(tokenID))
  ELSE [c |-> c, panic |-> FALSE]

SnapshotTransfer(c, from, to, tokenID) ==
  LET r == SnapshotRemoveToken(c, from, IntString(tokenID))
  IN  IF r.panic THEN r
      ELSE [c |-> SnapshotAddToken(r.c, to, IntString(tokenID)), panic |-> FALSE]

\* CreateContract on the heap of an empty ledger: "{}" leaves the fields at
\* their zero values, a heap written before holds empty maps and "0".
InitSnapshot ==
  /\ InitLazy \/ InitLoaded
  /\ store = EmptyStore(IntString(0))
  /\ BigZero = 0
  /\ ContractName = TestName
  /\ ContractSymbol = TestSymbol
  /\ panicked = FALSE
  /\ calls = 0
  /\ last = NoCall
  /\ mintLog = [valid |-> FALSE, rejected |-> FALSE, log |-> <<>>]
  /\ eager = NoTwin
  /\ run = NotRunning
  /\ context = NoContext

SnapshotCalled(c, panic, call) ==
  /\ Called
  /\ SetContract(c)
  /\ panicked' = panic
  /\ last' = call
  /\ UNCHANGED <<store, mintLog, eager, run, context>>

SnapshotMintCall(to) ==
  LET r == SnapshotMint(Contract, to)
  IN  SnapshotCalled(r.c, FALSE,
                     [NoCall EXCEPT !.op = "Mint", !.to = to, !.tid = r.tid,
                                    !.err = IF r.minted THEN NoErr ELSE "none"])

SnapshotBurnCall(tokenID) ==
  LET r == SnapshotBurn(Contract, tokenID)
  IN  SnapshotCalled(r.c, r.panic,
                     [NoCall EXCEPT !.op = "Burn", !.tid = IntString(tokenID),
                                    !.err = IF r.panic THEN "panic" ELSE NoErr])

SnapshotTransferCall(from, to, tokenID) ==
  LET r == SnapshotTransfer(Contract, from, to, tokenID)
  IN  SnapshotCalled(r.c, r.panic,
                     [NoCall EXCEPT !.op = "Transfer", !.from = from, !.to = to,
                                    !.tid = IntString(tokenID),
                                    !.err = IF r.panic THEN "panic" ELSE NoErr])

SnapshotNext ==
  \/ \E to \in Owners : SnapshotMintCall(to)
  \/ \E tokenID \in TokenIDs : SnapshotBurnCall(tokenID)
  \/ \E from \in Owners, to \in Owners, tokenID \in TokenIDs :
       SnapshotTransferCall(from, to, tokenID)

SpecSnapshot == InitSnapshot /\ [][SnapshotNext]_vars

\* ----------------------------------------------------------------- claims
Range(seq) == {seq[i] : i \in 1..Len(seq)}
ListOf(ot, o) == SliceAt(ot, o)
MapsLoaded == ~TokenOwners.isNil /\ ~OwnedTokens.isNil /\ ~OwnedTokenIndex.isNil
SupplyLoaded == SetStringOk(TotalTokens)
SupplyValue == SetStringValue(TotalTokens)

\* C1 (I1): in every state left by a returned call, for every token t and
\* owner o, TokenOwners[t] = o exactly when OwnedTokenIndex[t] is defined,
\* is a valid position of OwnedTokens[o], and that position holds t.
C1_OwnerIffIndexed ==
  ~panicked =>
    \A t \in Tokens, o \in Owners :
      (HasKey(TokenOwners, t) /\ TokenOwners.m[t] = o)
        <=> /\ HasKey(OwnedTokenIndex, t)
            /\ OwnedTokenIndex.m[t] < Len(ListOf(OwnedTokens, o))
            /\ ListOf(OwnedTokens, o)[OwnedTokenIndex.m[t] + 1] = t

\* C2: a Transfer(from, to, tokenID) called when TokenOwners[tokenID] is an
\* owner other than from returns ErrNoExist and changes no ledger field.
C2_TransferChecksOwner ==
  [][(/\ last'.op = "Transfer"
      /\ HasKey(TokenOwners, last'.tid)
      /\ TokenOwners.m[last'.tid] # last'.from)
     => (last'.err = ErrNoExist /\ UNCHANGED ledger)]_vars

\* C3 (I4, I6): whenever a call has returned, the integer value of
\* TotalTokens is the number of keys of TokenOwners; a successful Mint
\* raises it by one, a successful Burn lowers it by one, Transfer and every
\* failing call leave it unchanged.
SupplyMatches ==
  (~panicked /\ ~TokenOwners.isNil /\ SupplyLoaded)
    => SupplyValue = Cardinality(DOMAIN TokenOwners.m)

SupplyStep ==
  (SupplyLoaded /\ ~panicked')
    => /\ SupplyLoaded'
       /\ SupplyValue' - SupplyValue =
            IF last'.err # NoErr THEN 0
            ELSE IF last'.op = "Mint" THEN 1
            ELSE IF last'.op = "Burn" THEN 0 - 1
            ELSE 0

C3_SupplyCountsOwners == []SupplyMatches /\ [][SupplyStep]_vars

C3_Witness ==
  /\ last.op = "Burn" /\ last.err = NoErr
  /\ SupplyLoaded /\ SupplyValue = 1
  /\ Cardinality(DOMAIN TokenOwners.m) = 1

\* C4: Mint(to2, t) of a token t present in the loaded TokenOwners returns
\* ErrAlreadyExists and leaves the four ledger fields as they were, whoever
\* to2 is.
C4_MintExistingRejected ==
  [][(last'.op = "Mint" /\ HasKey(TokenOwners, last'.tid))
     => (last'.err = ErrAlreadyExists /\ UNCHANGED ledger)]_vars

C4_Witness ==
  /\ last.op = "Mint" /\ last.err = ErrAlreadyExists
  /\ HasKey(TokenOwners, last.tid)
  /\ TokenOwners.m[last.tid] # last.to

\* C5: Burn(t) of a token t absent from the loaded TokenOwners returns
\* ErrNoExist and leaves the four ledger fields as they were.
C5_BurnMissingRejected ==
  [][(last'.op = "Burn" /\ ~TokenOwners.isNil /\ ~HasKey(TokenOwners, last'.tid))
     => (last'.err = ErrNoExist /\ UNCHANGED ledger)]_vars

C5_Witness ==
  /\ last.op = "Burn" /\ last.err = ErrNoExist
  /\ ~HasKey(TokenOwners, last.tid)
  /\ DOMAIN TokenOwners.m # {}

\* C6: with the maps loaded, Transfer(from, to, t) of a token without an
\* entry in OwnedTokenIndex, or from an owner without an entry in
\* OwnedTokens, returns ErrNoExist and leaves the four ledger fields (so
\* both balances) as they were.
C6_TransferMissingRejected ==
  [][(/\ last'.op = "Transfer"
      /\ MapsLoaded
      /\ \/ ~HasKey(OwnedTokenIndex, last'.tid)
         \/ ~HasKey(OwnedTokens, last'.from))
     => (last'.err = ErrNoExist /\ UNCHANGED ledger)]_vars

C6_Witness ==
  /\ last.op = "Transfer" /\ last.err = ErrNoExist
  /\ HasKey(OwnedTokenIndex, last.tid)
  /\ ~HasKey(OwnedTokens, last.from)

\* C7: a successful Transfer(from, to, t) with from # to, called when from
\* owns t, leaves t owned by to, from's balance one lower, to's balance one
\* higher, t out of from's list and in to's list, and TotalTokens unchanged.
C7_TransferMovesToken ==
  [][(/\ last'.op = "Transfer" /\ last'.err = NoErr
      /\ last'.from # last'.to
      /\ HasKey(TokenOwners, last'.tid)
      /\ TokenOwners.m[last'.tid] = last'.from)
     => (/\ HasKey(TokenOwners', last'.tid)
         /\ TokenOwners'.m[last'.tid] = last'.to
         /\ Len(ListOf(OwnedTokens', last'.from)) = Len(ListOf(OwnedTokens, last'.from)) - 1
         /\ Len(ListOf(OwnedTokens', last'.to)) = Len(ListOf(OwnedTokens, last'.to)) + 1
         /\ last'.tid \notin Range(ListOf(OwnedTokens', last'.from))
         /\ last'.tid \in Range(ListOf(OwnedTokens', last'.to))
         /\ TotalTokens' = TotalTokens)]_vars

\* C8: a successful Burn(t) removes exactly t: t has no owner afterwards,
\* the former owner's list is its previous list with one element t cut out
\* and the others in order, every other token keeps its owner and stays in
\* its owner's list, and TotalTokens is one lower.
CutOut(before, after, t) ==
  \E p \in 1..Len(before) :
    before[p] = t /\ after = SubSeq(before, 1, p - 1) \o SubSeq(before, p + 1, Len(before))

C8_BurnRemovesExactlyToken ==
  [][(last'.op = "Burn" /\ last'.err = NoErr)
     => LET t == last'.tid
            o == TokenOwners.m[t]
        IN  /\ ~HasKey(TokenOwners', t)
            /\ CutOut(ListOf(OwnedTokens, o), ListOf(OwnedTokens', o), t)
            /\ \A u \in (DOMAIN TokenOwners.m) \ {t} :
                 /\ HasKey(TokenOwners', u)
                 /\ TokenOwners'.m[u] = TokenOwners.m[u]
                 /\ u \in Range(ListOf(OwnedTokens, TokenOwners.m[u]))
                      => u \in Range(ListOf(OwnedTokens', TokenOwners.m[u]))
            /\ SupplyLoaded' /\ SupplyValue' = SupplyValue - 1]_vars

\* C9: no Mint, Burn or Transfer call panics: the slice expressions on
\* OwnedTokens[from] are never evaluated with tokenIndex >= len.
C9_NoPanic == ~panicked

\* C10: after N Mint calls with pairwise distinct token IDs on the empty
\* ledger, none was rejected, the supply is N, every owner's balance is the
\* number of those mints made to it, and each minted token's index is the
\* balance its owner had just before that mint.
MintsTo(o, n) == Cardinality({i \in 1..n : mintLog.log[i].to = o})

C10_MintsCounted ==
  mintLog.valid =>
    /\ ~mintLog.rejected
    /\ mintLog.log # <<>> => SupplyLoaded
    /\ SupplyLoaded => SupplyValue = Len(mintLog.log)
    /\ \A o \in Owners : Len(ListOf(OwnedTokens, o)) = MintsTo(o, Len(mintLog.log))
    /\ \A i \in 1..Len(mintLog.log) :
         /\ HasKey(OwnedTokenIndex, mintLog.log[i].tid)
         /\ OwnedTokenIndex.m[mintLog.log[i].tid] = MintsTo(mintLog.log[i].to, i - 1)

C10_Witness ==
  /\ mintLog.valid
  /\ Len(mintLog.log) = 2
  /\ mintLog.log[1].to = mintLog.log[2].to
  /\ last.op = "Mint" /\ last.err = NoErr

\* C11 (I2): in every state left by a returned call, no owner's OwnedTokens
\* list holds the same token ID twice, and no owner key maps to an empty
\* list.
NoDuplicates(seq) == \A i, j \in 1..Len(seq) : seq[i] = seq[j] => i = j

C11_ListsDistinctNonEmpty ==
  ~panicked =>
    \A o \in DOMAIN OwnedTokens.m :
      /\ NoDuplicates(OwnedTokens.m[o])
      /\ OwnedTokens.m[o] # <<>>

\* C12: in every state left by a returned call, the key set of
\* OwnedTokenIndex is the key set of TokenOwners.
C12_IndexKeysAreOwnerKeys ==
  (~panicked /\ MapsLoaded) => DOMAIN OwnedTokenIndex.m = DOMAIN TokenOwners.m

C12_Witness ==
  /\ last.op = "Burn" /\ last.err = NoErr
  /\ DOMAIN TokenOwners.m # {}
  /\ DOMAIN OwnedTokenIndex.m = DOMAIN TokenOwners.m
  /\ last.tid \notin DOMAIN OwnedTokenIndex.m

\* C16 as stated: with OwnedTokens loaded, BalanceOf(owner) returns the
\* length of the owner's list and never an error, 0 for an unknown owner.
C16_BalanceOfNeverFails ==
  [][(last'.op = "BalanceOf" /\ ~OwnedTokens'.isNil)
     => (/\ last'.err = NoErr
         /\ last'.n = Len(ListOf(OwnedTokens', last'.owner)))]_vars

\* C16 amended: with OwnedTokens loaded, BalanceOf(owner) returns the length
\* of the owner's list and no error when the owner has an entry, and returns
\* 0 together with ErrNoExist when the owner has none; it changes no entry.
C16_BalanceOfUnknownIsNoExist ==
  [][(last'.op = "BalanceOf" /\ ~OwnedTokens'.isNil)
     => (/\ IF HasKey(OwnedTokens', last'.owner)
               THEN /\ last'.err = NoErr
                    /\ last'.n = Len(OwnedTokens'.m[last'.owner])
                    /\ last'.n > 0
               ELSE last'.err = ErrNoExist /\ last'.n = 0
         /\ ~OwnedTokens.isNil => UNCHANGED ledger)]_vars

C16_Witness ==
  /\ last.op = "BalanceOf" /\ last.err = ErrNoExist /\ last.n = 0
  /\ ~HasKey(OwnedTokens, last.owner)
  /\ DOMAIN OwnedTokens.m # {}

\* C17: OwnerOf(t) returns (TokenOwners[t], nil) when t is a key of
\* TokenOwners and ("", ErrNoExist) otherwise, and changes no entry; called
\* right after a successful Mint(o, t) it returns o, after a successful
\* Transfer(from, to, t) it returns to, after a successful Burn(t) it
\* returns ErrNoExist.
OwnerOfReads ==
  (last'.op = "OwnerOf" /\ ~TokenOwners'.isNil)
    => /\ IF HasKey(TokenOwners', last'.tid)
             THEN last'.err = NoErr /\ last'.owner = TokenOwners'.m[last'.tid]
             ELSE last'.err = ErrNoExist /\ last'.owner = ""
       /\ ~TokenOwners.isNil => UNCHANGED ledger

OwnerOfFollows ==
  (last'.op = "OwnerOf" /\ last.err = NoErr /\ last'.tid = last.tid)
    => /\ last.op \in {"Mint", "Transfer"}
            => last'.err = NoErr /\ last'.owner = last.to
       /\ last.op = "Burn" => last'.err = ErrNoExist /\ last'.owner = ""

C17_OwnerOfReturnsOwner == [][OwnerOfReads /\ OwnerOfFollows]_vars

C17_Witness ==
  /\ last.op = "OwnerOf" /\ last.err = NoErr
  /\ last.owner = TokenOwners.m[last.tid]
  /\ last.owner # OwnerNames[1]
  /\ Cardinality(DOMAIN TokenOwners.m) = 2

\* What a contract holds of the ledger: a field it has loaded, and the heap
\* object for a field it has not.
LedgerView(c) ==
  [TokenOwners |-> IF c.TokenOwners.isNil THEN store.tokenOwners ELSE c.TokenOwners.m,
   OwnedTokens |-> IF c.OwnedTokens.isNil THEN store.ownedTokens ELSE c.OwnedTokens.m,
   OwnedTokenIndex |->
     IF c.OwnedTokenIndex.isNil THEN store.ownedTokenIndex ELSE c.OwnedTokenIndex.m,
   TotalTokens |-> IF SetStringOk(c.TotalTokens) THEN c.TotalTokens
                   ELSE store.totalSupply]

PersistedView ==
  [TokenOwners |-> store.tokenOwners, OwnedTokens |-> store.ownedTokens,
   OwnedTokenIndex |-> store.ownedTokenIndex, TotalTokens |-> store.totalSupply]

\* C13: on a new contract, Mint(to, t) of a token t that the heap's
\* tokenOwners object holds returns ErrAlreadyExists (or the error of a
\* failed fetch) and leaves the ledger equal to the persisted one.
C13_LazyMintExistingRejected ==
  (/\ last.op = "Mint"
   /\ last.tid \in DOMAIN store.tokenOwners
   /\ last.err \notin StoreErrors)
    => (last.err = ErrAlreadyExists /\ LedgerView(Contract) = PersistedView)

\* C14: a request answered without a store failure gives, on the contract
\* that loads its fields on first use, the result and error it gives on the
\* populated contract, and leaves both holding the same ledger.
C14_LazyEqualsEager ==
  (last.op # "none" /\ last.err \notin StoreErrors)
    => (last = eager.call /\ LedgerView(Contract) = LedgerView(eager.c))

\* C15: a call stopped by a failed fetch (client error or a response that
\* is not OK) returns that error with a zero result (balance 0, owner "",
\* supply 0, no token list) and leaves every ledger entry as it was; so does
\* every Mint, Burn or Transfer that returns an error.
StoreFailureIsClean ==
  last'.err \in StoreErrors
    => /\ last'.n = 0 /\ last'.tokens = <<>>
       /\ last'.op = "OwnerOf" => last'.owner = ""
       /\ LedgerView(Contract)' = LedgerView(Contract)

FailingWriteIsClean ==
  (last'.op \in {"Mint", "Burn", "Transfer"} /\ last'.err \notin {NoErr, "panic"})
    => LedgerView(Contract)' = LedgerView(Contract)

C15_FetchFailureChangesNothing ==
  [][StoreFailureIsClean /\ FailingWriteIsClean]_vars

C15_Witness ==
  /\ last.op = "Mint" /\ last.err \in StoreErrors
  /\ ~TokenOwners.isNil /\ OwnedTokens.isNil
  /\ DOMAIN store.ownedTokens # {}
  /\ last.tid \notin DOMAIN store.tokenOwners

\* C18: Run writes to standard output, and ends with exit code 0, only
\* after every earlier step succeeded in order (name and symbol present,
\* contract created, standard input read, handler returned no error); when
\* one of these steps fails nothing is on standard output, one message is on
\* standard error, the exit code is 1, and the failed step is the last one
\* executed: an exited Run takes no further step.
IsPrefixOf(a, b) == Len(a) <= Len(b) /\ a = SubSeq(b, 1, Len(a))
StepsBeforeReply == {"name", "symbol", "create", "stdin", "handle"}

RunInOrder ==
  LET steps == RunSteps(run.variant)
      before == SubSeq(steps, 1, Len(steps) - 1)
  IN  /\ IsPrefixOf(run.done, steps)
      /\ (run.stdout # <<>> \/ run.exit = 0)
           => /\ IsPrefixOf(before, run.done)
              /\ run.failed \notin StepsBeforeReply
              /\ run.variant = "named" => run.name # "" /\ run.symbol # ""
              /\ run.b # "" /\ run.obj # ""
      /\ run.failed \in StepsBeforeReply
           => /\ run.stdout = <<>>
              /\ Len(run.stderr) = 1
              /\ run.exit = 1
              /\ run.pc = "exited"
              /\ run.done # <<>> /\ run.done[Len(run.done)] = run.failed

C18_RunRepliesOnlyAfterEveryStep == []RunInOrder /\ [][run.pc # "exited"]_vars

C18_Witness ==
  /\ run.variant = "named" /\ run.failed = "handle"
  /\ run.b # "" /\ run.stdout = <<>> /\ run.exit = 1

\* C19: when an invocation has minted, leaving the supply N in the contract
\* it returned as the new heap, TotalSupply() of the next invocation's new
\* contract returns N.
C19_SupplyRoundTrips ==
  [][(/\ last.op = "Mint" /\ last.err = NoErr
      /\ last'.op = "TotalSupply" /\ last'.err = NoErr)
     => last'.n = SetStringValue(TotalTokens)]_vars

\* C20: on every Contract that can be constructed, MetadataFor(tokenID)
\* returns without failing a map that is attached to the token, empty when
\* the call made it; a call that follows a call or a write for the same
\* token returns the same map, with the entry that was written.
C20_MetadataForAlwaysValid ==
  LET c == context.ctx
      l == context.last
      p == context.prev
  IN  /\ ~context.panicked
      /\ l.op = "MetadataFor"
           => /\ HasKey(c.TokenMetadata, IntString(l.id))
              /\ c.TokenMetadata.m[IntString(l.id)] = l.ret
              /\ l.ret \in DOMAIN c.maps
              /\ l.made => c.maps[l.ret] = EmptyMap
              /\ p.op \in {"MetadataFor", "write"} /\ p.id = l.id => l.ret = p.ret

\* C26: after every successful Transfer(from, to, t), the self-transfer
\* included, OwnedTokenIndex[t] is the position of t in OwnedTokens[to]: the
\* last one, the length of the list after the append minus one.
C26_TransferIndexIsLast ==
  [][(last'.op = "Transfer" /\ last'.err = NoErr)
     => (/\ HasKey(OwnedTokenIndex', last'.tid)
         /\ Len(ListOf(OwnedTokens', last'.to)) > 0
         /\ OwnedTokenIndex'.m[last'.tid] = Len(ListOf(OwnedTokens', last'.to)) - 1
         /\ ListOf(OwnedTokens', last'.to)[Len(ListOf(OwnedTokens', last'.to))]
              = last'.tid)]_vars

\* The three map fields under their heap keys.
MapKeys == {"tokenOwners", "ownedTokens", "ownedTokenIndex"}
FieldUnder(c, k) ==
  CASE k = "tokenOwners" -> c.TokenOwners
    [] k = "ownedTokens" -> c.OwnedTokens
    [] k = "ownedTokenIndex" -> c.OwnedTokenIndex

\* C29: when an invocation's Mint, Burn or Transfer returns nil, every map
\* field the operation changed is in the serialized contract, also when it
\* is empty, so that the heap holds the field's new value under its key: a
\* burned token is not kept.
C29_ChangedFieldsSerialized ==
  [][(last'.op \in {"Mint", "Burn", "Transfer"} /\ last'.err = NoErr)
     => \A k \in MapKeys :
          (~FieldUnder(Contract', k).isNil /\ FieldUnder(Contract', k).m # store[k])
            => (/\ k \in DOMAIN Marshal(Contract')
                /\ store'[k] = FieldUnder(Contract', k).m)]_vars

\* C21: TokenOfOwnerByIndex(owner, i) of the Contract of nft.go returns the
\* token at position i of OwnedTokens[owner] with true when i is below
\* BalanceOf(owner), and nil with false when the owner is unknown or i is
\* not below the balance; it never indexes past the end of the list (no
\* panic) and leaves the Context as it was.
C21_TokenOfOwnerByIndexChecked ==
  [][context'.last.op = "TokenOfOwnerByIndex"
     => LET c == context.ctx
            l == context'.last
            tokens == SliceAt(c.OwnedTokens, l.owner)
        IN  /\ ~context'.panicked
            /\ context'.ctx = c
            /\ l.idx < ContextBalanceOf(c, l.owner)
                 => (l.ok /\ ~l.nil /\ IntString(l.n) = tokens[l.idx + 1])
            /\ (~HasKey(c.OwnedTokens, l.owner) \/ l.idx >= ContextBalanceOf(c, l.owner))
                 => (~l.ok /\ l.nil)]_vars

\* A lookup that returned the second token of an owner.
C21_Witness ==
  /\ context.made
  /\ context.last.op = "TokenOfOwnerByIndex"
  /\ context.last.ok /\ context.last.idx = 1
  /\ Len(SliceAt(context.ctx.OwnedTokens, context.last.owner)) = 2

\* C23: Transfer of the Contract of nft.go, for a token that has an entry
\* in OwnedTokenIndex, leaves TotalTokens as it was, so TotalSupply()
\* returns the same value before and after the transfer.
C23_ContextTransferKeepsSupply ==
  [][(/\ context'.last.op = "Transfer"
      /\ context'.steps = context.steps + 1
      /\ HasKey(context.ctx.OwnedTokenIndex, IntString(context'.last.id))
      /\ ~context'.panicked)
     => (/\ context'.ctx.TotalTokens = context.ctx.TotalTokens
         /\ ContextTotalSupply(context'.ctx) = ContextTotalSupply(context.ctx))]_vars

\* C24: on the DefaultContract decoded from the heap JSON, Transfer(from,
\* to, t) of a token t without an entry in OwnedTokenIndex leaves the ledger
\* as it was: no entry appears in TokenOwners, OwnedTokens or
\* OwnedTokenIndex, both balances and the supply stay the same.
C24_SnapshotTransferMissingNoChange ==
  [][(/\ last'.op = "Transfer"
      /\ calls' = calls + 1
      /\ ~HasKey(OwnedTokenIndex, last'.tid))
     => (/\ TokenOwners'.m = TokenOwners.m
         /\ OwnedTokens'.m = OwnedTokens.m
         /\ OwnedTokenIndex'.m = OwnedTokenIndex.m
         /\ Len(ListOf(OwnedTokens', last'.from)) = Len(ListOf(OwnedTokens, last'.from))
         /\ Len(ListOf(OwnedTokens', last'.to)) = Len(ListOf(OwnedTokens, last'.to))
         /\ SnapshotBigIntString(TotalTokens').val = SnapshotBigIntString(TotalTokens).val)]_vars

\* C25: on the same contract, started on an empty ledger, a Mint never
\* assigns a token ID that TokenOwners holds at the time of the call: no
\* owner is overwritten and afterwards no token ID is twice in the lists.
C25_SnapshotMintIdIsNew ==
  [][(last'.op = "Mint" /\ calls' = calls + 1 /\ last'.err = NoErr)
     => (/\ ~HasKey(TokenOwners, last'.tid)
         /\ \A o \in DOMAIN OwnedTokens'.m : NoDuplicates(OwnedTokens'.m[o])
         /\ \A o, q \in DOMAIN OwnedTokens'.m :
              o # q => Range(OwnedTokens'.m[o]) \cap Range(OwnedTokens'.m[q]) = {})]_vars

\* C22: when TotalTokens is not loaded and the heap's totalSupply object is
\* text that is not a base-10 integer, over a heap that holds tokens, Mint
\* and Burn fail and leave TotalTokens as it was: the supply is never
\* computed from zero.
C22_InvalidSupplyStopsWrites ==
  [][(/\ last'.op \in {"Mint", "Burn"}
      /\ calls' = calls + 1
      /\ ~SetStringOk(TotalTokens)
      /\ ~SetStringOk(store.totalSupply)
      /\ store.tokenOwners # EmptyMap)
     => (last'.err # NoErr /\ TotalTokens' = TotalTokens)]_vars

\* The answers that fail the fetch of totalSupply.
SupplyFetchFails ==
  {[AllOk EXCEPT !.totalSupply = how] : how \in Responses \ {"ok"}}

\* C28: TotalSupply() returns the value of TotalTokens, with no store call,
\* when TotalTokens parses; otherwise it fetches totalSupply and returns the
\* fetched value, 0 without error when the fetched text is empty or not a
\* number, and 0 with the store's error when the fetch fails; after a call
\* that returned no error TotalTokens is the decimal text of the result.
C28_TotalSupplyReturns ==
  [][(last'.op = "TotalSupply" /\ calls' = calls + 1)
     => /\ SetStringOk(TotalTokens)
             => (/\ last'.err = NoErr
                 /\ last'.n = SetStringValue(TotalTokens)
                 /\ \A resp \in SupplyFetchFails :
                      TotalSupply(Contract, resp) = TotalSupply(Contract, AllOk))
        /\ ~SetStringOk(TotalTokens)
             => (/\ last'.err = NoErr
                      => last'.n = IF SetStringOk(store.totalSupply)
                                     THEN SetStringValue(store.totalSupply) ELSE 0
                 /\ last'.err # NoErr
                      => (last'.err \in StoreErrors /\ last'.n = 0
                          /\ TotalTokens' = TotalTokens)
                 /\ \A resp \in SupplyFetchFails :
                      TotalSupply(Contract, resp).err \in StoreErrors
                 /\ TotalSupply(Contract, AllOk).err = NoErr)
        /\ last'.err = NoErr => TotalTokens' = IntString(last'.n)]_vars

\* TotalSupply() has returned 0 without error over a heap whose supply
\* text is not a number, with tokens in the ledger.
C28_Witness ==
  /\ last.op = "TotalSupply" /\ last.err = NoErr /\ last.n = 0
  /\ store.totalSupply = NotANumber
  /\ store.tokenOwners # EmptyMap
  /\ TotalTokens = IntString(0)

\* What every operation would return, and leave in the contract, were it
\* called now with the store answering resp.
CallResults(resp) ==
  [mint |-> [x \in Owners \X Tokens |-> Mint(Contract, x[1], x[2], resp)],
   burn |-> [t \in Tokens |-> Burn(Contract, t, resp)],
   transfer |-> [x \in Owners \X Owners \X Tokens |->
                   Transfer(Contract, x[1], x[2], x[3], resp)],
   balanceOf |-> [o \in Owners |-> BalanceOf(Contract, o, resp)],
   ownerOf |-> [t \in Tokens |-> OwnerOf(Contract, t, resp)],
   tokensOwnedBy |-> [o \in Owners |-> TokensOwnedBy(Contract, o, resp)],
   totalSupply |-> TotalSupply(Contract, resp)]

\* No operation requests a field that is populated: a store that fails the
\* request for that field changes nothing in what the operations do.
NoFetchOfPopulated ==
  LET answered == CallResults(AllOk)
  IN  \A k \in Keys \ Unloaded : CallResults([AllOk EXCEPT ![k] = "err"]) = answered

\* A populated field stays populated, whatever the call.
StaysPopulated == \A k \in Keys : k \notin Unloaded => k \notin Unloaded'

ReadOps == {"BalanceOf", "OwnerOf", "TokensOwnedBy", "TotalSupply", "Name", "Symbol"}

\* C30: a read operation (BalanceOf, OwnerOf, TokensOwnedBy, TotalSupply,
\* Name, Symbol) called with all four fields loaded changes none of
\* TokenOwners, OwnedTokens, OwnedTokenIndex, TotalTokens, ContractName and
\* ContractSymbol; Name and Symbol return the name and the symbol; and no
\* call, Mint, Burn and Transfer included, changes ContractName or
\* ContractSymbol.
C30_ReadsChangeNothing ==
  [][/\ (last'.op \in ReadOps /\ calls' = calls + 1 /\ Unloaded = {})
          => (UNCHANGED ledger /\ UNCHANGED identity)
     /\ (last'.op = "Name" /\ calls' = calls + 1) => last'.text = ContractName
     /\ (last'.op = "Symbol" /\ calls' = calls + 1) => last'.text = ContractSymbol
     /\ UNCHANGED identity]_vars

\* Name() was called on a loaded contract that holds a token, after a
\* write.
C30_Witness ==
  /\ last.op = "Name" /\ last.text = TestName
  /\ Unloaded = {}
  /\ TokenOwners.m # EmptyMap
  /\ ContractName = TestName /\ ContractSymbol = TestSymbol

\* C31: the shared BigZero always holds 0: whatever the store answers for
\* totalSupply (a number, no text, text that is not a number, a failure),
\* no TotalSupply, Mint or Burn call changes the value of BigZero.
C31_BigZeroIsZero == BigZero = 0
====
